---- MODULE Spec2Model ----
(***************************************************************************)
(* GUIPlotter: the table loader (data_loader.py), the records              *)
(* (data_models.py) and the handlers of PlotApplication (plot_app.py).     *)
(*                                                                         *)
(* Conventions.  A text (the content of an entry, a label, a message) is a *)
(* sequence of tokens, so that str.strip, float() and the f-strings are    *)
(* computed and not assumed.  Positions are 0-based as in the source; the  *)
(* element at position p of a list s is s[p + 1].  None, "" returned by a  *)
(* dialog and an empty curselection() are written NoSel / <<>>.            *)
(***************************************************************************)
EXTENDS Integers, Sequences, FiniteSets, TLC

\* ------------------------------------------------------------------ bounds
\* Spec: the session with two tables
MaxTables == 2      \* tables the session holds
MaxPaths  == 2      \* paths chosen in one file dialog
MaxSeries == 2      \* selections the session holds at once
MaxAdds   == 2      \* selections appended in the session
\* SpecSeries: the series lists over one table
ListTables == 1
ListSeries == 3
ListAdds   == 4
\* SpecPlot: the plot panel
PlotSeries == 2     \* selections of the session that is plotted
MaxEdits   == 2     \* edits of the plot options

\* ------------------------------------------------------------------ values
NoSel == -1

AxisTags == {"left", "right"}

\* matplotlib.rcParams["axes.prop_cycle"] colours (the fallback list of the source)
Palette == <<"C0", "C1", "C2">>

\* what colorchooser.askcolor can return as hex_color: None (written "") or a colour
PickerColors == {"", "#ff0000"}

\* ------------------------------------------------------------------ texts
IsSpace(tok) == tok = " "

RECURSIVE LStrip(_)
LStrip(t) == IF t # <<>> /\ IsSpace(Head(t)) THEN LStrip(Tail(t)) ELSE t

RECURSIVE RStrip(_)
RStrip(t) ==
    IF t # <<>> /\ IsSpace(t[Len(t)]) THEN RStrip(SubSeq(t, 1, Len(t) - 1)) ELSE t

\* str.strip()
Strip(t) == RStrip(LStrip(t))

Digits == <<"0", "1", "2", "3", "4", "5", "6", "7", "8", "9">>

IsDigit(tok) == \E d \in 1..Len(Digits) : Digits[d] = tok

DigitValue(tok) == (CHOOSE d \in 1..Len(Digits) : Digits[d] = tok) - 1

\* float(value) succeeds: the decimal literals without sign, point or exponent
IsFloat(t) == t # <<>> /\ \A k \in 1..Len(t) : IsDigit(t[k])

RECURSIVE FloatOf(_)
FloatOf(t) ==
    IF t = <<>> THEN 0
    ELSE 10 * FloatOf(SubSeq(t, 1, Len(t) - 1)) + DigitValue(t[Len(t)])

\* ------------------------------------------------------------------ files
\* The file system the loader reads: which paths exist and what pandas makes of them.
Files == {"a.dat", "b.dat", "gone.dat", "empty.dat", "bad.dat"}

PathExists(p) == p # "gone.dat"

\* pd.read_csv: raises, or a frame with its columns and its number of rows
ReadCsv(p) ==
    CASE p = "a.dat"     -> [raises |-> FALSE, columns |-> <<"t", "y">>, rows |-> 2]
      [] p = "b.dat"     -> [raises |-> FALSE, columns |-> <<"t">>, rows |-> 1]
      [] p = "empty.dat" -> [raises |-> FALSE, columns |-> <<"t", "y">>, rows |-> 0]
      [] OTHER           -> [raises |-> TRUE,  columns |-> <<>>, rows |-> 0]

\* DataFrame.empty
FrameEmpty(df) == df.rows = 0 \/ df.columns = <<>>

\* Path.stem
Stem(p) ==
    CASE p = "a.dat" -> "a"
      [] p = "b.dat" -> "b"
      [] p = "gone.dat" -> "gone"
      [] p = "empty.dat" -> "empty"
      [] OTHER -> "bad"

\* DataSet(path, columns, data): data is the frame, of which the model keeps its columns
DataSet(p, df) == [path |-> p, columns |-> df.columns, data |-> df.columns]

\* DataSet.name
Name(ds) == Stem(ds.path)

\* a loader that passes over a file it cannot load
RECURSIVE LoadFromSkipping(_, _)
LoadFromSkipping(files, acc) ==
    IF files = <<>> THEN [error |-> <<>>, datasets |-> acc]
    ELSE LET p == Head(files) IN
         IF ~PathExists(p) \/ ReadCsv(p).raises \/ FrameEmpty(ReadCsv(p))
         THEN LoadFromSkipping(Tail(files), acc)
         ELSE LoadFromSkipping(Tail(files), Append(acc, DataSet(p, ReadCsv(p))))

\* SpaceDelimitedLoader.load: the datasets, or the message of the DataLoaderError
\* raised (error, <<>> when none is)
RECURSIVE LoadFrom(_, _)
LoadFrom(files, acc) ==
    IF files = <<>> THEN [error |-> <<>>, datasets |-> acc]
    ELSE LET p == Head(files) IN
         IF ~PathExists(p) THEN [error |-> <<"File not found: ", p>>, datasets |-> <<>>]
         ELSE LET df == ReadCsv(p) IN
              IF df.raises THEN [error |-> <<"Failed to parse ", p>>, datasets |-> <<>>]
              ELSE IF FrameEmpty(df)
                   THEN [error |-> <<"File ", p, " contains no data">>, datasets |-> <<>>]
                   ELSE LoadFrom(Tail(files), Append(acc, DataSet(p, df)))

load(files) == LoadFrom(files, <<>>)

InList(x, s) == \E k \in 1..Len(s) : s[k] = x

\* ------------------------------------------------------------------ state
VARIABLES
    datasets,               \* self.datasets
    series,                 \* self.series
    color_cycle,            \* self.color_cycle: position of the cycle in Palette
    dataset_sel,            \* self.dataset_list.curselection()
    column_list,            \* the rows of self.column_list
    column_sel,             \* self.column_list.curselection()
    x_column_combo,         \* self.x_column_combo["values"]
    x_column_var,           \* self.x_column_var
    series_label_var,       \* self.series_label_var
    left_series_indices,    \* self.left_series_indices
    right_series_indices,   \* self.right_series_indices
    options,                \* the variables of the plot options panel
    figure,                 \* self.figure: its axes, in creation order
    dialogs,                \* the message boxes the last handler showed, in order
    assigned,               \* the colours next(self.color_cycle) returned so far
    edits,                  \* number of edits of the plot options so far
    x_reselected            \* per selection: a table selection changed x_column_var
                            \* since the selection was added

vars == <<datasets, series, color_cycle, dataset_sel, column_list, column_sel,
          x_column_combo, x_column_var, series_label_var,
          left_series_indices, right_series_indices, options, figure,
          dialogs, assigned, edits, x_reselected>>

\* messagebox.showinfo / showwarning / showerror
Box(kind, title, message) == [kind |-> kind, title |-> title, message |-> message]

\* a selection that keeps the row of the table counted from one
SeriesSelectionOneBased(dataset_index, column, axis, label, color) ==
    [dataset_index |-> dataset_index + 1, column |-> column, axis |-> axis,
     label |-> label, color |-> color]

\* SeriesSelection(dataset_index, column, axis, label, color)
SeriesSelection(dataset_index, column, axis, label, color) ==
    [dataset_index |-> dataset_index, column |-> column, axis |-> axis,
     label |-> label, color |-> color]

\* The variables of __init__ holding the plot options, with their initial values
InitOptions ==
    [x_label_var |-> <<"X Axis">>, left_label_var |-> <<"Left Axis">>,
     right_label_var |-> <<"Right Axis">>, show_legend_var |-> TRUE,
     x_min_var |-> <<>>, x_max_var |-> <<>>,
     left_y_min_var |-> <<>>, left_y_max_var |-> <<>>,
     right_y_min_var |-> <<>>, right_y_max_var |-> <<>>,
     x_scale_var |-> <<"1">>, left_y_scale_var |-> <<"1">>,
     right_y_scale_var |-> <<"1">>,
     x_log_var |-> FALSE, left_y_log_var |-> FALSE, right_y_log_var |-> FALSE]

\* Figure(): no axes
EmptyFigure == <<>>

Init ==
    /\ datasets = <<>>
    /\ series = <<>>
    /\ color_cycle = 0
    /\ dataset_sel = NoSel
    /\ column_list = <<>>
    /\ column_sel = NoSel
    /\ x_column_combo = <<>>
    /\ x_column_var = ""
    /\ series_label_var = <<>>
    /\ left_series_indices = <<>>
    /\ right_series_indices = <<>>
    /\ options = InitOptions
    /\ figure = EmptyFigure
    /\ dialogs = <<>>
    /\ assigned = <<>>
    /\ x_reselected = <<>>
    /\ edits = 0

\* the record of the table selections that changed the x column, after one more did
\* (changed) or did not
Noted(changes, changed) ==
    IF changed THEN [k \in 1..Len(changes) |-> TRUE] ELSE changes

\* ------------------------------------------------------------------ datasets
\* _clear_column_panel: the column rows, the combo values and the x column it leaves
clear_column_panel == [column_list |-> <<>>, values |-> <<>>, x |-> ""]

\* a handler that always takes the first column of the selected table as x column
OnDatasetSelectFirstColumn(ds, sel, x) ==
    IF sel = NoSel THEN clear_column_panel
    ELSE [column_list |-> ds[sel + 1].columns,
          values |-> ds[sel + 1].columns,
          x |-> IF ds[sel + 1].columns # <<>> THEN ds[sel + 1].columns[1] ELSE ""]

\* _on_dataset_select with the table list ds, the curselection sel and the x column x
on_dataset_select(ds, sel, x) ==
    IF sel = NoSel THEN clear_column_panel
    ELSE LET dataset == ds[sel + 1] IN
         [column_list |-> dataset.columns,
          values |-> dataset.columns,
          x |-> IF ~InList(x, dataset.columns)
                THEN (IF dataset.columns # <<>> THEN dataset.columns[1] ELSE "")
                ELSE x]

\* "Open Files...": filedialog.askopenfilenames returned paths
prompt_files(paths) ==
    /\ UNCHANGED <<series, color_cycle, series_label_var, left_series_indices,
                   right_series_indices, options, figure, assigned, edits>>
    /\ IF paths = <<>>
       THEN /\ dialogs' = <<>>
            /\ UNCHANGED <<datasets, dataset_sel, column_list, column_sel,
                           x_column_combo, x_column_var, x_reselected>>
       ELSE LET loaded == load(paths) IN
            IF loaded.error # <<>>
            THEN /\ dialogs' = <<Box("error", "Failed to load data", loaded.error)>>
                 /\ UNCHANGED <<datasets, dataset_sel, column_list, column_sel,
                                x_column_combo, x_column_var, x_reselected>>
            ELSE IF loaded.datasets = <<>>
            THEN /\ dialogs' = <<>>
                 /\ UNCHANGED <<datasets, dataset_sel, column_list, column_sel,
                                x_column_combo, x_column_var, x_reselected>>
            ELSE LET start_index == Len(datasets)
                     panel == on_dataset_select(datasets \o loaded.datasets,
                                                start_index, x_column_var)
                 IN  /\ dialogs' = <<>>
                     /\ datasets' = datasets \o loaded.datasets
                     /\ dataset_sel' = start_index
                     /\ column_list' = panel.column_list
                     /\ column_sel' = NoSel
                     /\ x_column_combo' = panel.values
                     /\ x_column_var' = panel.x
                     /\ x_reselected' = Noted(x_reselected, panel.x # x_column_var)

\* <<ListboxSelect>> on the dataset list: the user selected row sel
dataset_click(sel) ==
    LET panel == on_dataset_select(datasets, sel, x_column_var) IN
    /\ dialogs' = <<>>
    /\ dataset_sel' = sel
    /\ column_list' = panel.column_list
    /\ column_sel' = NoSel
    /\ x_column_combo' = panel.values
    /\ x_column_var' = panel.x
    /\ x_reselected' = Noted(x_reselected, panel.x # x_column_var)
    /\ UNCHANGED <<datasets, series, color_cycle, series_label_var,
                   left_series_indices, right_series_indices, options, figure,
                   assigned, edits>>

\* the default label f"{dataset.name}: {column}"
DefaultLabel(dataset, column) == <<Name(dataset), ": ", column>>

\* _current_dataset_index
current_dataset_index == dataset_sel

\* _current_column_name: None is written ""
current_column_name == IF column_sel = NoSel THEN "" ELSE column_list[column_sel + 1]

\* <<ListboxSelect>> on the column list: the user selected row sel
column_click(sel) ==
    /\ dialogs' = <<>>
    /\ column_sel' = sel
    /\ series_label_var' =
           IF dataset_sel = NoSel \/ column_list[sel + 1] = ""
           THEN series_label_var
           ELSE DefaultLabel(datasets[dataset_sel + 1], column_list[sel + 1])
    /\ UNCHANGED <<datasets, series, color_cycle, dataset_sel, column_list,
                   x_column_combo, x_column_var, left_series_indices,
                   right_series_indices, options, figure, assigned, edits,
                   x_reselected>>

\* the read-only combo box bound to x_column_var: the user chose one of its values
x_column_choose(c) ==
    /\ dialogs' = <<>>
    /\ x_column_var' = c
    /\ UNCHANGED <<datasets, series, color_cycle, dataset_sel, column_list, column_sel,
                   x_column_combo, series_label_var, left_series_indices,
                   right_series_indices, options, figure, assigned, edits,
                   x_reselected>>

\* what the user types into the "Custom label" entry
LabelTexts == {<<"mine">>, <<" ">>}

\* the entry bound to series_label_var: the user typed t
label_type(t) ==
    /\ dialogs' = <<>>
    /\ series_label_var' = t
    /\ UNCHANGED <<datasets, series, color_cycle, dataset_sel, column_list, column_sel,
                   x_column_combo, x_column_var, left_series_indices,
                   right_series_indices, options, figure, assigned, edits,
                   x_reselected>>

\* ------------------------------------------------------------------ series
\* a cycle that returns to the first colour one colour early
NextColorShortCycle(cycle) ==
    [color |-> Palette[cycle + 1],
     cycle |-> IF cycle + 1 >= Len(Palette) - 1 THEN 0 ELSE cycle + 1]

\* next(self.color_cycle): the colour returned and the position left
NextColor(cycle) == [color |-> Palette[cycle + 1], cycle |-> (cycle + 1) % Len(Palette)]

\* _refresh_series_lists: the index map it builds for axis "left" (left = TRUE) or for
\* the other list, scanning s in order
RECURSIVE IndexMapFrom(_, _, _, _)
IndexMapFrom(s, index, left, acc) ==
    IF index >= Len(s) THEN acc
    ELSE IndexMapFrom(s, index + 1, left,
                      IF (s[index + 1].axis = "left") = left
                      THEN Append(acc, index) ELSE acc)

\* the axis test never true: every selection lands in the other list
RefreshAxisNeverLeft(s, left) == IF left THEN <<>> ELSE [k \in 1..Len(s) |-> k - 1]

refresh_series_lists(s, left) == IndexMapFrom(s, 0, left, <<>>)

\* _series_widgets: the index map of the axis' list
series_widgets(axis) ==
    IF axis = "left" THEN left_series_indices ELSE right_series_indices

\* index_map[selection[0]]: the position in self.series of the row selected
SeriesTargetIsRow(index_map, row) == row

series_target(index_map, row) == index_map[row + 1]

\* self.series.pop() in place of the deletion
DelLast(s, target) == SubSeq(s, 1, Len(s) - 1)

\* del self.series[target]
DelAt(s, target) == SubSeq(s, 1, target) \o SubSeq(s, target + 2, Len(s))

\* the checks of _add_series: the box of the check that returns, none when all pass
AddRefusalNoColumnCheck(ds, dataset_index, column, x_column) ==
    IF dataset_index = NoSel
    THEN <<Box("info", "Select dataset", <<"Choose a dataset before adding a series.">>)>>
    ELSE IF x_column = ""
    THEN <<Box("info", "Select X column", <<"Choose a column to use for the X axis.">>)>>
    ELSE IF ~InList(x_column, ds[dataset_index + 1].columns)
    THEN <<Box("error", "Column unavailable",
               <<"Dataset '", Name(ds[dataset_index + 1]),
                 "' does not contain column '", x_column, "'.">>)>>
    ELSE <<>>

AddRefusal(ds, dataset_index, column, x_column) ==
    IF dataset_index = NoSel
    THEN <<Box("info", "Select dataset", <<"Choose a dataset before adding a series.">>)>>
    ELSE IF column = ""
    THEN <<Box("info", "Select column", <<"Choose a column before adding a series.">>)>>
    ELSE IF x_column = ""
    THEN <<Box("info", "Select X column", <<"Choose a column to use for the X axis.">>)>>
    ELSE IF ~InList(x_column, ds[dataset_index + 1].columns)
    THEN <<Box("error", "Column unavailable",
               <<"Dataset '", Name(ds[dataset_index + 1]),
                 "' does not contain column '", x_column, "'.">>)>>
    ELSE <<>>

\* "Add to Left Axis" / "Add to Right Axis"
add_series(axis) ==
    LET dataset_index == current_dataset_index
        column == current_column_name
        x_column == x_column_var
        refusal == AddRefusal(datasets, dataset_index, column, x_column)
    IN
    /\ UNCHANGED <<datasets, dataset_sel, column_list, column_sel, x_column_combo,
                   x_column_var, options, figure, edits>>
    /\ IF refusal # <<>>
       THEN /\ dialogs' = refusal
            /\ UNCHANGED <<series, color_cycle, series_label_var,
                           left_series_indices, right_series_indices, assigned,
                           x_reselected>>
       ELSE LET dataset == datasets[dataset_index + 1]
                label == IF Strip(series_label_var) # <<>>
                         THEN Strip(series_label_var)
                         ELSE DefaultLabel(dataset, column)
                drawn == NextColor(color_cycle)
                appended == Append(series,
                                SeriesSelection(dataset_index, column, axis,
                                                label, drawn.color))
            IN  /\ dialogs' = <<>>
                /\ color_cycle' = drawn.cycle
                /\ series' = appended
                /\ series_label_var' = <<>>
                /\ left_series_indices' = refresh_series_lists(appended, TRUE)
                /\ right_series_indices' = refresh_series_lists(appended, FALSE)
                /\ assigned' = Append(assigned, drawn.color)
                /\ x_reselected' = Append(x_reselected, FALSE)

\* "Remove" under the list of axis, whose curselection is row (NoSel: none)
remove_series(axis, row) ==
    /\ dialogs' = <<>>
    /\ UNCHANGED <<datasets, color_cycle, dataset_sel, column_list, column_sel,
                   x_column_combo, x_column_var, series_label_var, options, figure,
                   assigned, edits>>
    /\ IF row = NoSel
       THEN UNCHANGED <<series, left_series_indices, right_series_indices, x_reselected>>
       ELSE LET target == series_target(series_widgets(axis), row)
                kept == DelAt(series, target)
            IN  /\ series' = kept
                /\ x_reselected' = DelAt(x_reselected, target)
                /\ left_series_indices' = refresh_series_lists(kept, TRUE)
                /\ right_series_indices' = refresh_series_lists(kept, FALSE)

\* the selection at target with its colour replaced
Recolored(s, target, hex_color) ==
    [s EXCEPT ![target + 1] =
        SeriesSelection(s[target + 1].dataset_index, s[target + 1].column,
                        s[target + 1].axis, s[target + 1].label, hex_color)]

\* "Color..." under the list of axis, whose curselection is row; the colour chooser
\* returned hex_color
update_series_color(axis, row, hex_color) ==
    /\ dialogs' = <<>>
    /\ UNCHANGED <<datasets, color_cycle, dataset_sel, column_list, column_sel,
                   x_column_combo, x_column_var, series_label_var, options, figure,
                   assigned, edits, x_reselected>>
    /\ IF row = NoSel \/ hex_color = ""
       THEN UNCHANGED <<series, left_series_indices, right_series_indices>>
       ELSE LET target == series_target(series_widgets(axis), row)
                changed == Recolored(series, target, hex_color)
            IN  /\ series' = changed
                /\ left_series_indices' = refresh_series_lists(changed, TRUE)
                /\ right_series_indices' = refresh_series_lists(changed, FALSE)

\* ------------------------------------------------------------------ plotting
None == <<>>

Some(v) == <<v>>

\* _get_float_from_var on the entry text: the float or the default, or raises after
\* the "Invalid value" box
get_float_from_var(text, default) ==
    LET value == Strip(text) IN
    IF value = <<>> THEN [raises |-> FALSE, value |-> default]
    ELSE IF IsFloat(value) THEN [raises |-> FALSE, value |-> Some(FloatOf(value))]
    ELSE [raises |-> TRUE, value |-> None]

\* the entries _plot_series parses, in the order it parses them
NumericFields ==
    <<[var |-> "x_scale_var",       label |-> "X axis scale",       default |-> Some(1)],
      [var |-> "left_y_scale_var",  label |-> "Left axis scale",    default |-> Some(1)],
      [var |-> "right_y_scale_var", label |-> "Right axis scale",   default |-> Some(1)],
      [var |-> "x_min_var",         label |-> "X axis minimum",     default |-> None],
      [var |-> "x_max_var",         label |-> "X axis maximum",     default |-> None],
      [var |-> "left_y_min_var",    label |-> "Left axis minimum",  default |-> None],
      [var |-> "left_y_max_var",    label |-> "Left axis maximum",  default |-> None],
      [var |-> "right_y_min_var",   label |-> "Right axis minimum", default |-> None],
      [var |-> "right_y_max_var",   label |-> "Right axis maximum", default |-> None]>>

\* a try block that goes on after an entry raised and reports the last that did
RECURSIVE ParseFromReportingLast(_, _, _)
ParseFromReportingLast(opts, k, acc) ==
    IF k > Len(NumericFields) THEN [failed |-> "", values |-> acc]
    ELSE LET f == NumericFields[k]
             got == get_float_from_var(opts[f.var], f.default)
             rest == ParseFromReportingLast(opts, k + 1, Append(acc, got.value))
         IN  IF got.raises /\ rest.failed = "" THEN [failed |-> f.label, values |-> acc]
             ELSE rest

\* the try block of _plot_series over the entries from position k on: the label of the
\* entry that raised ("" when none did) and the values parsed before it
RECURSIVE ParseFrom(_, _, _)
ParseFrom(opts, k, acc) ==
    IF k > Len(NumericFields) THEN [failed |-> "", values |-> acc]
    ELSE LET f == NumericFields[k]
             got == get_float_from_var(opts[f.var], f.default)
         IN  IF got.raises THEN [failed |-> f.label, values |-> acc]
             ELSE ParseFrom(opts, k + 1, Append(acc, got.value))

\* a clear that leaves the axes in place
FigureKept(fig) == fig

\* Figure.clear()
figure_clear(fig) == EmptyFigure

\* a new Axes: add_subplot(111) or twinx()
NewAxes(kind) ==
    [kind |-> kind, lines |-> <<>>, xlabel |-> <<>>, ylabel |-> <<>>,
     legend |-> None, xlim |-> [lo |-> None, hi |-> None],
     ylim |-> [lo |-> None, hi |-> None], xscale |-> "linear", yscale |-> "linear"]

\* Axes.plot(x_data, y_data, label, color): the data are the columns of the dataset's
\* frame times their scale
Line(dataset, x_column, x_scale, y_column, y_scale, label, color) ==
    [frame |-> dataset.path, x |-> x_column, x_scale |-> x_scale,
     y |-> y_column, y_scale |-> y_scale, label |-> label, color |-> color]

\* the two column checks of the loop: the warning of the check that skips the
\* selection, none when it is drawn
MissingColumnOwnOnly(dataset, selection, x_column) ==
    IF ~InList(selection.column, dataset.data)
    THEN <<Box("warning", "Missing column",
               <<"Column '", selection.column,
                 "' no longer exists in dataset '", Name(dataset), "'.">>)>>
    ELSE <<>>

MissingColumn(dataset, selection, x_column) ==
    IF ~InList(selection.column, dataset.data)
    THEN <<Box("warning", "Missing column",
               <<"Column '", selection.column,
                 "' no longer exists in dataset '", Name(dataset), "'.">>)>>
    ELSE IF ~InList(x_column, dataset.data)
    THEN <<Box("warning", "Missing column",
               <<"Column '", x_column, "' not found in dataset '", Name(dataset), "'.">>)>>
    ELSE <<>>

\* a loop that makes a twin axes for every right-axis selection it draws
RECURSIVE DrawFromTwinEach(_, _, _, _, _)
DrawFromTwinEach(ds, s, k, x_column, st) ==
    IF k > Len(s) THEN st
    ELSE LET selection == s[k]
             dataset == ds[selection.dataset_index + 1]
         IN
         IF MissingColumn(dataset, selection, x_column) # <<>>
         THEN DrawFromTwinEach(ds, s, k + 1, x_column,
                  [st EXCEPT !.boxes = @ \o MissingColumn(dataset, selection, x_column)])
         ELSE LET twin == selection.axis = "right"
                  fig == IF twin THEN Append(st.figure, NewAxes("twinx"))
                         ELSE st.figure
                  ax == IF twin THEN Len(fig) ELSE st.ax_left
                  line == Line(dataset, x_column, st.x_scale, selection.column,
                               IF twin THEN st.right_y_scale ELSE st.left_y_scale,
                               selection.label, selection.color)
              IN  DrawFromTwinEach(ds, s, k + 1, x_column,
                      [st EXCEPT
                          !.figure = [fig EXCEPT ![ax].lines = Append(@, line)],
                          !.ax_right = IF twin THEN ax ELSE @,
                          !.legend_handles =
                              Append(@, <<ax, Len(fig[ax].lines) + 1>>),
                          !.legend_labels = Append(@, selection.label)])

\* the loop of _plot_series over the selections from position k on; st holds the
\* figure, the positions of ax_left and ax_right in it (ax_right 0: None), the legend
\* lists and the warnings shown
RECURSIVE DrawFrom(_, _, _, _, _)
DrawFrom(ds, s, k, x_column, st) ==
    IF k > Len(s) THEN st
    ELSE LET selection == s[k]
             dataset == ds[selection.dataset_index + 1]
         IN
         IF MissingColumn(dataset, selection, x_column) # <<>>
         THEN DrawFrom(ds, s, k + 1, x_column,
                  [st EXCEPT !.boxes = @ \o MissingColumn(dataset, selection, x_column)])
         ELSE LET y_scale == IF selection.axis = "left"
                             THEN st.left_y_scale ELSE st.right_y_scale
                  target_axis == IF selection.axis = "left" THEN st.ax_left
                                 ELSE st.ax_right
                  twin == target_axis = 0
                  fig == IF twin THEN Append(st.figure, NewAxes("twinx"))
                         ELSE st.figure
                  ax == IF twin THEN Len(fig) ELSE target_axis
                  line == Line(dataset, x_column, st.x_scale, selection.column,
                               y_scale, selection.label, selection.color)
              IN  DrawFrom(ds, s, k + 1, x_column,
                      [st EXCEPT
                          !.figure = [fig EXCEPT ![ax].lines = Append(@, line)],
                          !.ax_right = IF twin THEN ax ELSE @,
                          !.legend_handles =
                              Append(@, <<ax, Len(fig[ax].lines) + 1>>),
                          !.legend_labels = Append(@, selection.label)])

\* limits asked for only when both ends are given
LimitsGivenBoth(lo, hi) == lo # None /\ hi # None

\* "lo is not None or hi is not None"
LimitsGiven(lo, hi) == lo # None \/ hi # None

\* "a or b" on texts
OrText(a, b) == IF a # <<>> THEN a ELSE b

LogOrLinear(flag) == IF flag THEN "log" ELSE "linear"

\* _plot_series past its checks: the figure it leaves and the warnings it shows
Rendered(fig, ds, s, x_column, opts, v) ==
    LET cleared == figure_clear(fig)
        left == Len(cleared) + 1
        drawn == DrawFrom(ds, s, 1, x_column,
                     [figure |-> Append(cleared, NewAxes("subplot")),
                      ax_left |-> left, ax_right |-> 0,
                      x_scale |-> v[1], left_y_scale |-> v[2], right_y_scale |-> v[3],
                      legend_handles |-> <<>>, legend_labels |-> <<>>,
                      boxes |-> <<>>])
        right == drawn.ax_right
        labelled ==
            [drawn.figure EXCEPT
                ![left].xlabel = OrText(Strip(opts.x_label_var), <<x_column>>),
                ![left].ylabel = OrText(Strip(opts.left_label_var), <<"Left Axis">>)]
        labelled2 ==
            IF right # 0
            THEN [labelled EXCEPT
                     ![right].ylabel = OrText(Strip(opts.right_label_var),
                                              <<"Right Axis">>)]
            ELSE labelled
        legended ==
            IF opts.show_legend_var /\ drawn.legend_handles # <<>>
            THEN [labelled2 EXCEPT
                     ![left].legend = Some([handles |-> drawn.legend_handles,
                                            labels |-> drawn.legend_labels,
                                            loc |-> "best"])]
            ELSE labelled2
        xlimited ==
            IF LimitsGiven(v[4], v[5])
            THEN [legended EXCEPT ![left].xlim = [lo |-> v[4], hi |-> v[5]]]
            ELSE legended
        ylimited ==
            IF LimitsGiven(v[6], v[7])
            THEN [xlimited EXCEPT ![left].ylim = [lo |-> v[6], hi |-> v[7]]]
            ELSE xlimited
        rlimited ==
            IF right # 0 /\ LimitsGiven(v[8], v[9])
            THEN [ylimited EXCEPT ![right].ylim = [lo |-> v[8], hi |-> v[9]]]
            ELSE ylimited
        scaled ==
            [rlimited EXCEPT
                ![left].xscale = LogOrLinear(opts.x_log_var),
                ![left].yscale = LogOrLinear(opts.left_y_log_var)]
        scaled2 ==
            IF right # 0
            THEN [scaled EXCEPT ![right].yscale = LogOrLinear(opts.right_y_log_var)]
            ELSE scaled
    IN  [figure |-> scaled2, boxes |-> drawn.boxes]

\* the first checks of _plot_series: the box of the check that returns, none when
\* both pass
PlotRefusalXFirst(s, x_column) ==
    IF x_column = ""
    THEN <<Box("info", "Select X column", <<"Choose a column for the X axis.">>)>>
    ELSE IF s = <<>>
    THEN <<Box("info", "No series", <<"Add at least one series to plot.">>)>>
    ELSE <<>>

PlotRefusal(s, x_column) ==
    IF s = <<>>
    THEN <<Box("info", "No series", <<"Add at least one series to plot.">>)>>
    ELSE IF x_column = ""
    THEN <<Box("info", "Select X column", <<"Choose a column for the X axis.">>)>>
    ELSE <<>>

\* "Plot"
plot_series ==
    /\ UNCHANGED <<datasets, series, color_cycle, dataset_sel, column_list, column_sel,
                   x_column_combo, x_column_var, series_label_var,
                   left_series_indices, right_series_indices, options, assigned, edits,
                   x_reselected>>
    /\ IF PlotRefusal(series, x_column_var) # <<>>
       THEN /\ dialogs' = PlotRefusal(series, x_column_var)
            /\ UNCHANGED figure
       ELSE LET parsed == ParseFrom(options, 1, <<>>) IN
            IF parsed.failed # ""
            THEN /\ dialogs' = <<Box("error", "Invalid value",
                                     <<"Enter a numeric value for ", parsed.failed,
                                       ".">>)>>
                 /\ UNCHANGED figure
            ELSE LET chart == Rendered(figure, datasets, series, x_column_var,
                                       options, parsed.values)
                 IN  /\ figure' = chart.figure
                     /\ dialogs' = chart.boxes

\* "Clear"
clear_plot ==
    /\ figure' = figure_clear(figure)
    /\ dialogs' = <<>>
    /\ UNCHANGED <<datasets, series, color_cycle, dataset_sel, column_list, column_sel,
                   x_column_combo, x_column_var, series_label_var,
                   left_series_indices, right_series_indices, options, assigned, edits,
                   x_reselected>>

\* ------------------------------------------------------------------ plot options
\* what the user types into a Min, Max or Scale entry
NumberTexts == {<<>>, <<" ", "0">>, <<"x">>}

\* what the user types into an axis label entry
AxisLabelTexts == {<<>>, <<"T">>}

LabelVars == {"x_label_var", "left_label_var", "right_label_var"}

FlagVars == {"show_legend_var", "x_log_var", "left_y_log_var", "right_y_log_var"}

NumberVars == {NumericFields[k].var : k \in 1..Len(NumericFields)}

\* an entry or check button of the plot options panel: the user set var to value
option_edit(var, value) ==
    /\ options' = [options EXCEPT ![var] = value]
    /\ edits' = edits + 1
    /\ dialogs' = <<>>
    /\ UNCHANGED <<datasets, series, color_cycle, dataset_sel, column_list, column_sel,
                   x_column_combo, x_column_var, series_label_var,
                   left_series_indices, right_series_indices, figure, assigned,
                   x_reselected>>

\* the plot options panel, explored for MaxEdits edits
OptionsNext ==
    \/ \E var \in NumberVars : \E value \in NumberTexts \cup {<<"1">>} :
           /\ options[var] # value
           /\ edits < MaxEdits
           /\ option_edit(var, value)
    \/ \E var \in LabelVars : \E value \in AxisLabelTexts \cup {InitOptions[var]} :
           /\ options[var] # value
           /\ edits < MaxEdits
           /\ option_edit(var, value)
    \/ \E var \in FlagVars : \E value \in BOOLEAN :
           /\ options[var] # value
           /\ edits < MaxEdits
           /\ option_edit(var, value)

\* the rows a list of n rows lets the user select, and none
Rows(n) == {NoSel} \cup (0..(n - 1))

\* the path tuples a file dialog can return; cancelling returns none
RECURSIVE PathTuples(_)
PathTuples(n) ==
    IF n = 0 THEN {<<>>}
    ELSE LET shorter == PathTuples(n - 1) IN
         shorter \cup {Append(t, p) : t \in {u \in shorter : Len(u) = n - 1}, p \in Files}

\* The handlers of the session, explored while the session holds at most maxTables
\* tables and maxSeries selections, of maxAdds appended, one typed label and one picked colour
SessionNext(maxTables, maxSeries, maxAdds) ==
    \/ \E paths \in PathTuples(MaxPaths) :
           /\ Len(datasets) + Len(paths) <= maxTables
           /\ prompt_files(paths)
    \/ \E sel \in 0..(Len(datasets) - 1) : dataset_click(sel)
    \/ \E sel \in 0..(Len(column_list) - 1) : column_click(sel)
    \/ \E k \in 1..Len(x_column_combo) : x_column_choose(x_column_combo[k])
    \/ \E t \in LabelTexts :
           /\ \A k \in 1..Len(series) :
                  series[k].label =
                      DefaultLabel(datasets[series[k].dataset_index + 1], series[k].column)
           /\ label_type(t)
    \/ \E axis \in AxisTags :
           /\ Len(series) < maxSeries
           /\ Len(assigned) < maxAdds
           /\ add_series(axis)
    \/ \E axis \in AxisTags : \E row \in Rows(Len(series_widgets(axis))) :
           remove_series(axis, row)
    \/ \E axis \in AxisTags : \E row \in Rows(Len(series_widgets(axis))) :
           \E hex_color \in PickerColors :
               /\ \A k \in 1..Len(series) : ~(series[k].color \in PickerColors)
               /\ update_series_color(axis, row, hex_color)

\* The handlers of the session are explored from the states in which the last handler
\* showed no box and the figure is clear ("Clear" leads back to them).
Settled == dialogs = <<>> /\ figure = EmptyFigure

\* The session from its construction, with the plot options left as constructed
Next ==
    \/ (Settled /\ SessionNext(MaxTables, MaxSeries, MaxAdds))
    \/ plot_series
    \/ clear_plot

Spec == Init /\ [][Next]_vars

\* The same session over one table, with longer series lists
NextSeries ==
    \/ (Settled /\ SessionNext(ListTables, ListSeries, ListAdds))
    \/ plot_series
    \/ clear_plot

SpecSeries == Init /\ [][NextSeries]_vars

\* ------------------------------------------------------------------ the plot panel
\* The tables of a session that opened a.dat and b.dat
PlotTables == load(<<"a.dat", "b.dat">>).datasets

\* what "Add to ... Axis" appended for table, column and axis, the label entry blank
PlotChoices == {<<0, "y", "left">>, <<0, "y", "right">>, <<1, "t", "right">>}

RECURSIVE ChoiceTuples(_)
ChoiceTuples(n) ==
    IF n = 0 THEN {<<>>}
    ELSE LET shorter == ChoiceTuples(n - 1) IN
         shorter \cup
         {Append(t, c) : t \in {u \in shorter : Len(u) = n - 1}, c \in PlotChoices}

\* the selections add_series appended for the choices, none removed or recoloured
SeriesOf(choices) ==
    [k \in 1..Len(choices) |->
        SeriesSelection(choices[k][1], choices[k][2], choices[k][3],
                        DefaultLabel(PlotTables[choices[k][1] + 1], choices[k][2]),
                        Palette[((k - 1) % Len(Palette)) + 1])]

\* The session before the plot panel is used: either nothing was opened yet, or
\* a.dat and b.dat are open, the first is selected, some series were assigned and the
\* x column is one of the first table's.
InitPlot ==
    /\ datasets \in {<<>>, PlotTables}
    /\ \E choices \in ChoiceTuples(PlotSeries) :
           /\ datasets = <<>> => choices = <<>>
           /\ series = SeriesOf(choices)
    /\ color_cycle = Len(series) % Len(Palette)
    /\ assigned = [k \in 1..Len(series) |-> series[k].color]
    /\ x_reselected = [k \in 1..Len(series) |-> FALSE]
    /\ edits = 0
    /\ dataset_sel = IF datasets = <<>> THEN NoSel ELSE 0
    /\ column_list = IF datasets = <<>> THEN <<>> ELSE datasets[1].columns
    /\ column_sel = NoSel
    /\ x_column_combo = column_list
    /\ x_column_var \in IF datasets = <<>> THEN {""}
                        ELSE {column_list[k] : k \in 1..Len(column_list)}
    /\ series_label_var = <<>>
    /\ left_series_indices = refresh_series_lists(series, TRUE)
    /\ right_series_indices = refresh_series_lists(series, FALSE)
    /\ options = InitOptions
    /\ figure = EmptyFigure
    /\ dialogs = <<>>

NextPlot ==
    \/ OptionsNext
    \/ plot_series
    \/ clear_plot

SpecPlot == InitPlot /\ [][NextPlot]_vars

\* ------------------------------------------------------------------ properties
\* the path tuples a file dialog returns in the session
ChosenPaths == PathTuples(MaxPaths)

\* the selections a list shows, row by row, through its index map
ViewOf(s, index_map) == [r \in 1..Len(index_map) |-> s[index_map[r] + 1]]

\* the selections of s on axis, in the order of s
OnAxis(s, axis) == SelectSeq(s, LAMBDA e : e.axis = axis)

\* s without the element at position i
Without(s, i) == [k \in 1..(Len(s) - 1) |-> IF k <= i THEN s[k] ELSE s[k + 1]]

\* the cases in which an "add series" click is to fail: no table selected or its index
\* out of range, no column selected or the column not among the table's, the x column
\* unset or not among the table's
AddFails ==
    \/ dataset_sel = NoSel
    \/ ~(dataset_sel \in 0..(Len(datasets) - 1))
    \/ column_sel = NoSel
    \/ ~InList(current_column_name, datasets[dataset_sel + 1].columns)
    \/ x_column_var = ""
    \/ ~InList(x_column_var, datasets[dataset_sel + 1].columns)

\* C1: an "add series" click that fails (no table or column selected, column or x
\* column not among the table's columns, x column unset) leaves the selection list as
\* it was: same length, same elements, same order.
C1_FailedAddKeepsSelections ==
    [][\A axis \in AxisTags : (add_series(axis) /\ AddFails) => series' = series]_vars

\* a click on "Add" with no column selected was refused while selections exist
C1_Witness ==
    /\ dialogs # <<>>
    /\ dialogs[1].title = "Select column"
    /\ Len(series) >= 1

\* C2: "Remove" on the row of a list deletes exactly the selection at the master
\* position i the row stands for; the selections left keep their relative order, and
\* the two lists rebuilt by the refresh show exactly the selections left, per axis and
\* in that order (so never the removed one).
C2_RemoveKeepsOrder ==
    [][\A axis \in AxisTags : \A row \in 0..(Len(series_widgets(axis)) - 1) :
          remove_series(axis, row) =>
              LET i == series_widgets(axis)[row + 1] IN
              /\ series[i + 1].axis = axis
              /\ Len(series') = Len(series) - 1
              /\ series' = Without(series, i)
              /\ ViewOf(series', left_series_indices') = OnAxis(Without(series, i), "left")
              /\ ViewOf(series', right_series_indices') =
                     OnAxis(Without(series, i), "right")]_vars

\* of three selections coloured C0, C1, C2 the middle one was removed
C2_Witness ==
    /\ assigned = <<"C0", "C1", "C2">>
    /\ Len(series) = 2
    /\ series[1].color = "C0"
    /\ series[2].color = "C2"
    /\ series[1].axis # series[2].axis

\* C3: "Color..." on the row of a list replaces the colour of the selection the row
\* stands for and nothing else: its table index, column, axis and label stay, every
\* other selection and every position stays, and the palette cursor stays; when the
\* colour chooser returns no colour (or no row is selected) nothing changes.
C3_SetColorOnlyColor ==
    [][\A axis \in AxisTags : \A row \in Rows(Len(series_widgets(axis))) :
       \A hex_color \in PickerColors :
          update_series_color(axis, row, hex_color) =>
              /\ color_cycle' = color_cycle
              /\ assigned' = assigned
              /\ IF row = NoSel \/ hex_color = ""
                 THEN UNCHANGED <<datasets, series, left_series_indices,
                                  right_series_indices, x_column_var, series_label_var,
                                  options, figure>>
                 ELSE LET i == series_widgets(axis)[row + 1] IN
                      /\ Len(series') = Len(series)
                      /\ series'[i + 1] = [series[i + 1] EXCEPT !.color = hex_color]
                      /\ \A k \in 1..Len(series) : k # i + 1 => series'[k] = series[k]
                      /\ left_series_indices' = left_series_indices
                      /\ right_series_indices' = right_series_indices]_vars

\* the second of three selections, labelled by the user, was recoloured
C3_Witness ==
    /\ Len(series) = 3
    /\ series[1].color = "C0"
    /\ series[2].color = "#ff0000"
    /\ series[2].label = <<"mine">>
    /\ series[3].color = "C2"
    /\ series[2].axis = "right"
    /\ series[1].axis = "left"

\* the k-th colour handed out is Palette[(k - 1) mod N], for every k
InPaletteOrder(colors) ==
    \A k \in 1..Len(colors) : colors[k] = Palette[((k - 1) % Len(Palette)) + 1]

\* C4: colours come from a round-robin cursor over the palette of length N: the k-th
\* successful add receives Palette[(k - 1) mod N], whatever failed adds, removals,
\* recolourings and renders happen in between (none of them moves the cursor); with
\* N >= 3, three successive successful adds receive three distinct colours.
C4_RoundRobinColors ==
    [][/\ IF Len(series') = Len(series) + 1
          THEN /\ series'[Len(series')].color =
                      Palette[(Len(assigned) % Len(Palette)) + 1]
               /\ assigned' = Append(assigned, series'[Len(series')].color)
          ELSE /\ color_cycle' = color_cycle
               /\ assigned' = assigned
       /\ InPaletteOrder(assigned')
       /\ color_cycle' = Len(assigned') % Len(Palette)
       /\ Len(Palette) >= 3 =>
              \A k \in 1..(Len(assigned') - 2) :
                  Cardinality({assigned'[k], assigned'[k + 1], assigned'[k + 2]}) = 3]_vars

\* the fourth add received the first colour again, after a removal and a recolouring
C4_Witness ==
    /\ Len(assigned) = 4
    /\ Len(series) = 3
    /\ series[3].color = Palette[1]
    /\ \E k \in 1..2 : series[k].color = "#ff0000"

StrictlyIncreasing(m) == \A a, b \in 1..Len(m) : a < b => m[a] < m[b]

Range(m) == {m[k] : k \in 1..Len(m)}

\* C5: in every state the two index maps are a stable partition of the master list:
\* each is strictly increasing, together they hold every position 0..len-1 exactly
\* once, and a position is in the left map iff its selection is on the left axis; so
\* a row of a list maps to an in-range position whose selection is on that axis.
C5_IndexMapsPartition ==
    /\ StrictlyIncreasing(left_series_indices)
    /\ StrictlyIncreasing(right_series_indices)
    /\ Range(left_series_indices) \cup Range(right_series_indices)
           = 0..(Len(series) - 1)
    /\ Range(left_series_indices) \cap Range(right_series_indices) = {}
    /\ \A p \in 0..(Len(series) - 1) :
           (p \in Range(left_series_indices)) <=> (series[p + 1].axis = "left")
    /\ \A axis \in AxisTags : \A r \in 1..Len(series_widgets(axis)) :
           /\ series_widgets(axis)[r] \in 0..(Len(series) - 1)
           /\ series[series_widgets(axis)[r] + 1].axis = axis

\* the master list interleaves the axes: left, right, left
C5_Witness ==
    /\ left_series_indices = <<0, 2>>
    /\ right_series_indices = <<1>>

\* a path the loader cannot load: not found, not parsable, or without data rows
Unloadable(p) == ~PathExists(p) \/ ReadCsv(p).raises \/ ReadCsv(p).rows = 0

\* the loader on paths of which one cannot be loaded: an error and no table, even
\* when earlier paths parsed
LoaderAllOrNothing ==
    \A paths \in ChosenPaths :
        (\E k \in 1..Len(paths) : Unloadable(paths[k])) =>
            /\ load(paths).error # <<>>
            /\ load(paths).datasets = <<>>

\* C6: opening a sequence of paths is all-or-nothing: if one path cannot be loaded the
\* call yields no table and the table list stays as it was, even when earlier paths of
\* the call parsed; if all load, one table per path is appended in input order and the
\* tables already there keep their positions.
C6_LoadAllOrNothing ==
    [][/\ LoaderAllOrNothing
       /\ \A paths \in ChosenPaths \ {<<>>} :
              IF \E k \in 1..Len(paths) : Unloadable(paths[k])
              THEN datasets' # datasets => ~prompt_files(paths)
              ELSE prompt_files(paths) =>
                       /\ Len(datasets') = Len(datasets) + Len(paths)
                       /\ SubSeq(datasets', 1, Len(datasets)) = datasets
                       /\ \A k \in 1..Len(paths) :
                              /\ datasets'[Len(datasets) + k].path = paths[k]
                              /\ datasets'[Len(datasets) + k].columns =
                                     ReadCsv(paths[k]).columns]_vars

\* a load failed while a table was open
C6_Witness ==
    /\ dialogs # <<>>
    /\ dialogs[1].title = "Failed to load data"
    /\ Len(datasets) = 1

\* the text of a numeric entry does not parse
Unparsable(var) == Strip(options[var]) # <<>> /\ ~IsFloat(Strip(options[var]))

\* C7: "Plot" with no selection fails with the "No series" box, and with selections but
\* the x column unset fails with the "Select X column" box; the first check comes
\* first, and both come before the numeric entries are parsed, so neither case reports
\* an invalid number; nothing is drawn.
C7_RenderRefusalOrder ==
    [][plot_series =>
          /\ series = <<>> =>
                 /\ Len(dialogs') = 1
                 /\ dialogs'[1].title = "No series"
                 /\ figure' = figure
          /\ (series # <<>> /\ x_column_var = "") =>
                 /\ Len(dialogs') = 1
                 /\ dialogs'[1].title = "Select X column"
                 /\ figure' = figure]_vars

\* "No series" was reported although the x column is unset and an entry does not parse
C7_Witness ==
    /\ series = <<>>
    /\ x_column_var = ""
    /\ \E var \in NumberVars : Unparsable(var)
    /\ Len(dialogs) = 1
    /\ dialogs[1].title = "No series"

\* "Plot" gets past its checks: selections exist, the x column is set, every numeric
\* entry parses
RenderPasses ==
    /\ series # <<>>
    /\ x_column_var # ""
    /\ \A var \in NumberVars : ~Unparsable(var)

\* the table of the selection holds both its column and the x column
Drawable(selection) ==
    /\ InList(selection.column, datasets[selection.dataset_index + 1].columns)
    /\ InList(x_column_var, datasets[selection.dataset_index + 1].columns)

\* what identifies the line drawn for a selection
LineOf(selection) ==
    [frame |-> datasets[selection.dataset_index + 1].path, y |-> selection.column,
     label |-> selection.label, color |-> selection.color]

\* the lines an axes is to hold: the drawable selections on axis, in master order
LinesDue(axis) ==
    LET due == SelectSeq(series, LAMBDA e : e.axis = axis /\ Drawable(e))
    IN  [k \in 1..Len(due) |-> LineOf(due[k])]

\* the lines an axes holds
LinesOn(ax) ==
    [k \in 1..Len(ax.lines) |->
        [frame |-> ax.lines[k].frame, y |-> ax.lines[k].y,
         label |-> ax.lines[k].label, color |-> ax.lines[k].color]]

\* C8: a render that passes its checks draws exactly the selections whose table holds
\* both the selection's column and the x column, in master-list order on their axes;
\* every other selection is skipped with exactly one warning, in order; the skipped
\* ones neither stop later ones from being drawn nor make the render fail.
C8_DrawnAreTheValidOnes ==
    [][(plot_series /\ RenderPasses) =>
          LET skipped == SelectSeq(series, LAMBDA e : ~Drawable(e)) IN
          /\ figure' # EmptyFigure
          /\ figure'[1].kind = "subplot"
          /\ LinesOn(figure'[1]) = LinesDue("left")
          /\ IF LinesDue("right") = <<>> THEN Len(figure') = 1
             ELSE /\ Len(figure') = 2
                  /\ figure'[2].kind = "twinx"
                  /\ LinesOn(figure'[2]) = LinesDue("right")
          /\ \A k \in 1..Len(figure') : \A n \in 1..Len(figure'[k].lines) :
                 figure'[k].lines[n].x = x_column_var
          /\ Len(dialogs') = Len(skipped)
          /\ \A k \in 1..Len(skipped) :
                 /\ dialogs'[k].kind = "warning"
                 /\ dialogs'[k].title = "Missing column"
                 /\ dialogs'[k].message[4] =
                        Name(datasets[skipped[k].dataset_index + 1])]_vars

\* the first selection was skipped for the x column its table lacks, the second drawn
C8_Witness ==
    /\ x_column_var = "y"
    /\ Len(series) = 2
    /\ series[1].dataset_index = 1
    /\ series[2].dataset_index = 0
    /\ Len(dialogs) = 1
    /\ dialogs[1].kind = "warning"
    /\ Len(figure) = 2
    /\ Len(figure[2].lines) = 1
    /\ figure[2].lines[1].frame = "a.dat"

\* C9: a render is a function of the tables, the selections and the configuration
\* alone: whatever figure was there before, the chart is the one drawn on a clear
\* figure (same axes, lines, labels, colours, legend, limits and scales), so rendering
\* again with the same inputs gives the same chart; and the render changes neither the
\* tables, the selections, the palette cursor nor the configuration.
C9_RenderIsRebuild ==
    [][(plot_series /\ RenderPasses) =>
          LET values == ParseFrom(options, 1, <<>>).values
              fresh == Rendered(EmptyFigure, datasets, series, x_column_var, options,
                                values)
          IN  /\ figure' = fresh.figure
              /\ dialogs' = fresh.boxes
              /\ Rendered(figure', datasets', series', x_column_var', options',
                          values).figure = figure'
              /\ UNCHANGED <<datasets, series, color_cycle, x_column_var, options,
                             left_series_indices, right_series_indices, assigned>>]_vars

\* a chart with a line on each axes, drawn after the x label was set
C9_Witness ==
    /\ Len(figure) = 2
    /\ Len(figure[1].lines) = 1
    /\ Len(figure[2].lines) = 1
    /\ options.x_label_var = <<"T">>
    /\ figure[1].xlabel = <<"T">>
    /\ figure[1].legend # None

\* the bound an entry supplies: none when blank
Bound(var) ==
    IF Strip(options[var]) = <<>> THEN None ELSE Some(FloatOf(Strip(options[var])))

\* the limits an axis is to have: each end the bound supplied, or left to auto-scaling
LimitsDue(min_var, max_var) == [lo |-> Bound(min_var), hi |-> Bound(max_var)]

\* C10 as stated: in a render that succeeds, for each of the x, left Y and right Y
\* axes, the bounds supplied are applied (a minimum alone leaves the maximum to
\* auto-scaling) if and only if at least one of the two was supplied. Violated: with no
\* right-axis selection drawn there is no right axis, and its bounds are not applied.
C10_AsStated ==
    [][(plot_series /\ RenderPasses) =>
          /\ figure'[1].xlim = LimitsDue("x_min_var", "x_max_var")
          /\ figure'[1].ylim = LimitsDue("left_y_min_var", "left_y_max_var")
          /\ LimitsDue("right_y_min_var", "right_y_max_var") # [lo |-> None, hi |-> None]
                 => /\ Len(figure') = 2
                    /\ figure'[2].ylim = LimitsDue("right_y_min_var", "right_y_max_var")
          /\ (Len(figure') = 2
              /\ LimitsDue("right_y_min_var", "right_y_max_var") = [lo |-> None, hi |-> None])
                 => figure'[2].ylim = [lo |-> None, hi |-> None]]_vars

\* C10: in a render that succeeds, the x axis and the left Y axis, and the right Y axis
\* when a right-axis selection was drawn (so that the axis exists), get exactly the
\* bounds supplied: a minimum alone is applied and leaves the maximum to auto-scaling,
\* and an axis with no bound supplied keeps auto-scaling at both ends.
C10_LimitsWhereAxisExists ==
    [][(plot_series /\ RenderPasses) =>
          /\ figure'[1].xlim = LimitsDue("x_min_var", "x_max_var")
          /\ figure'[1].ylim = LimitsDue("left_y_min_var", "left_y_max_var")
          /\ Len(figure') = 2 =>
                 figure'[2].ylim = LimitsDue("right_y_min_var", "right_y_max_var")
          /\ Len(figure') = 2 <=> LinesDue("right") # <<>>]_vars

\* only the minimum of x and of the right Y axis was supplied, and applied
C10_Witness ==
    /\ Len(figure) = 2
    /\ options.x_min_var = <<" ", "0">>
    /\ options.x_max_var = <<>>
    /\ options.right_y_min_var = <<" ", "0">>
    /\ options.right_y_max_var = <<>>
    /\ figure[1].xlim = [lo |-> Some(0), hi |-> None]
    /\ figure[2].ylim = [lo |-> Some(0), hi |-> None]
    /\ figure[1].ylim = [lo |-> None, hi |-> None]

\* the numeric entries in the order claimed: scales, then x, left and right ranges
ClaimedOrder ==
    <<"x_scale_var", "left_y_scale_var", "right_y_scale_var", "x_min_var", "x_max_var",
      "left_y_min_var", "left_y_max_var", "right_y_min_var", "right_y_max_var">>

\* the name under which the entry var is reported
LabelOf(var) ==
    NumericFields[CHOOSE k \in 1..Len(NumericFields) : NumericFields[k].var = var].label

\* the first entry, in the order claimed, that does not parse
FirstUnparsable ==
    ClaimedOrder[CHOOSE k \in 1..Len(ClaimedOrder) :
                     /\ Unparsable(ClaimedOrder[k])
                     /\ \A j \in 1..(k - 1) : ~Unparsable(ClaimedOrder[j])]

\* C11: a render that fails (no selection, x column unset, or a non-blank scale or
\* range entry that is no number) leaves the chart shown before exactly as it was, and
\* the tables, the selections and the palette cursor unchanged; it reports one thing
\* only, and for the entries that is the first that does not parse, in the order
\* x scale, left scale, right scale, x min, x max, left min, left max, right min,
\* right max.
C11_FailedRenderKeepsChart ==
    [][(plot_series /\ ~RenderPasses) =>
          /\ figure' = figure
          /\ UNCHANGED <<datasets, series, color_cycle, assigned, options,
                         left_series_indices, right_series_indices>>
          /\ Len(dialogs') = 1
          /\ (series # <<>> /\ x_column_var # "") =>
                 /\ dialogs'[1].kind = "error"
                 /\ dialogs'[1].title = "Invalid value"
                 /\ dialogs'[1].message[2] = LabelOf(FirstUnparsable)]_vars

\* a chart was shown, then two entries were made unparsable and "Plot" reported the
\* x scale, the first of them, and kept the chart
C11_Witness ==
    /\ figure # EmptyFigure
    /\ Len(figure[1].lines) >= 1
    /\ Unparsable("x_scale_var")
    /\ Unparsable("right_y_max_var")
    /\ Len(dialogs) = 1
    /\ dialogs[1].title = "Invalid value"
    /\ dialogs[1].message[2] = "X axis scale"

\* the loop of a render after the first k selections, from the cleared figure
LoopAfter(k) ==
    LET v == ParseFrom(options, 1, <<>>).values IN
    DrawFrom(datasets, SubSeq(series, 1, k), 1, x_column_var,
             [figure |-> <<NewAxes("subplot")>>, ax_left |-> 1, ax_right |-> 0,
              x_scale |-> v[1], left_y_scale |-> v[2], right_y_scale |-> v[3],
              legend_handles |-> <<>>, legend_labels |-> <<>>, boxes |-> <<>>])

\* the positions in fig of the axes of a kind
AxesOfKind(fig, kind) == {a \in 1..Len(fig) : fig[a].kind = kind}

\* C12: within one render the secondary axis is created at most once, at the first
\* selection in list order that is on the right axis and is drawn, and the later
\* right-axis selections are drawn on it; after the render it exists if and only if a
\* right-axis selection was drawn, and the left-axis selections are on the primary axis.
C12_SecondaryAxisOnce ==
    [][(plot_series /\ RenderPasses) =>
          /\ \A k \in 0..Len(series) :
                 LET st == LoopAfter(k)
                     drawn_right == {j \in 1..k : series[j].axis = "right"
                                                  /\ Drawable(series[j])}
                 IN  /\ Cardinality(AxesOfKind(st.figure, "twinx")) =
                            (IF drawn_right = {} THEN 0 ELSE 1)
                     /\ Cardinality(AxesOfKind(st.figure, "subplot")) = 1
                     /\ (st.ax_right # 0) <=> (drawn_right # {})
                     /\ st.ax_right # 0 =>
                            /\ st.figure[st.ax_right].kind = "twinx"
                            /\ Len(st.figure[st.ax_right].lines) = Cardinality(drawn_right)
          /\ Cardinality(AxesOfKind(figure', "subplot")) = 1
          /\ Cardinality(AxesOfKind(figure', "twinx")) =
                 (IF LinesDue("right") = <<>> THEN 0 ELSE 1)
          /\ \A a \in 1..Len(figure') : \A n \in 1..Len(figure'[a].lines) :
                 \E j \in 1..Len(series) :
                     /\ LineOf(series[j]) = LinesOn(figure'[a])[n]
                     /\ figure'[a].kind =
                            (IF series[j].axis = "left" THEN "subplot" ELSE "twinx")]_vars

\* two right-axis selections were drawn on the one secondary axis, none on the primary
C12_Witness ==
    /\ Len(series) = 2
    /\ series[1].axis = "right"
    /\ series[2].axis = "right"
    /\ Len(figure) = 2
    /\ figure[1].lines = <<>>
    /\ figure[2].kind = "twinx"
    /\ Len(figure[2].lines) = 2

\* every selection refers to a table of the list and to one of the two axes
SelectionsValid(ds, s) ==
    \A k \in 1..Len(s) :
        /\ s[k].dataset_index \in 0..(Len(ds) - 1)
        /\ s[k].axis \in AxisTags

\* C13: after any sequence of loads (successful or failed), adds, removals,
\* recolourings and renders, every selection of the master list has a table index that
\* is a position of the table list and an axis tag "left" or "right"; the table list
\* only grows by appending, and no step changes the table index or the axis of a
\* selection that stays in place.
C13_SelectionsReferToTables ==
    [][/\ SelectionsValid(datasets, series)
       /\ SelectionsValid(datasets', series')
       /\ Len(datasets') >= Len(datasets)
       /\ SubSeq(datasets', 1, Len(datasets)) = datasets
       /\ Len(series') >= Len(series) =>
              \A k \in 1..Len(series) :
                  /\ series'[k].dataset_index = series[k].dataset_index
                  /\ series'[k].axis = series[k].axis
                  /\ series'[k].column = series[k].column]_vars

\* a selection on the second table, recoloured, is held before one on the first
C13_Witness ==
    /\ Len(datasets) = 2
    /\ Len(series) = 2
    /\ series[1].dataset_index = 1
    /\ series[1].color = "#ff0000"
    /\ series[2].dataset_index = 0

\* the x column after the table is selected: kept when the table has it, else the
\* table's first column
SelectedX(table, x) == IF InList(x, table.columns) THEN x ELSE table.columns[1]

\* the table list ds holds, for selection, both its column and the x column x
DrawableWith(ds, x, selection) ==
    /\ InList(selection.column, ds[selection.dataset_index + 1].columns)
    /\ InList(x, ds[selection.dataset_index + 1].columns)

\* selecting a table, by a click or by the selection of the first table of a
\* successful load, keeps the x column if the table has it and else takes the table's
\* first column; a cancelled or failed load (the table list stays) keeps it
TableSelectionSetsX ==
    /\ \A sel \in 0..(Len(datasets) - 1) :
           dataset_click(sel) => x_column_var' = SelectedX(datasets[sel + 1], x_column_var)
    /\ IF datasets' # datasets
       THEN \A paths \in ChosenPaths :
                prompt_files(paths) =>
                    x_column_var' = SelectedX(datasets'[Len(datasets) + 1], x_column_var)
       ELSE x_column_var' # x_column_var =>
                \A paths \in ChosenPaths : ~prompt_files(paths)

\* adding, removing, recolouring and rendering keep the x column: a step that changes
\* it is none of them
OtherHandlersKeepX ==
    x_column_var' # x_column_var =>
        /\ \A axis \in AxisTags :
               /\ ~add_series(axis)
               /\ \A row \in Rows(Len(series_widgets(axis))) :
                      /\ ~remove_series(axis, row)
                      /\ \A hex_color \in PickerColors :
                             ~update_series_color(axis, row, hex_color)
        /\ ~plot_series

\* C14 as stated: selecting a table keeps the x column when the table has it and else
\* replaces it with the table's first column; adding, removing, recolouring and
\* rendering do not change it; so a selection that was accepted is skipped by a later
\* render only if a table selection changed the x column in between. Violated: the
\* user can also choose the x column in the combo box.
C14_AsStated ==
    [][/\ TableSelectionSetsX
       /\ OtherHandlersKeepX
       /\ (plot_series /\ RenderPasses) =>
              \A k \in 1..Len(series) : ~Drawable(series[k]) => x_reselected[k]]_vars

\* C14: selecting a table keeps the x column when the table has it and else replaces
\* it with the table's first column; adding, removing, recolouring and rendering do
\* not change it; the x column changes only when a table is selected or the user
\* chooses it in the combo box; a selection is drawable when it is accepted, and stops
\* being so only in a step that changes the x column. So an accepted selection is
\* skipped by a later render only if a table selection or a choice in the combo box
\* changed the x column in between.
C14_XColumnChanges ==
    [][/\ TableSelectionSetsX
       /\ OtherHandlersKeepX
       /\ x_column_var' # x_column_var =>
              \/ \E sel \in 0..(Len(datasets) - 1) : dataset_click(sel)
              \/ \E paths \in ChosenPaths : prompt_files(paths)
              \/ \E k \in 1..Len(x_column_combo) : x_column_choose(x_column_combo[k])
       /\ Len(series') = Len(series) + 1 =>
              DrawableWith(datasets', x_column_var', series'[Len(series')])
       /\ Len(series') >= Len(series) =>
              \A k \in 1..Len(series) :
                  (DrawableWith(datasets, x_column_var, series[k])
                   /\ ~DrawableWith(datasets', x_column_var', series'[k]))
                      => x_column_var' # x_column_var]_vars

\* a render skipped a selection although no table selection had changed the x column
\* since it was added: the user chose an x column its table lacks
C14_Witness ==
    /\ figure # EmptyFigure
    /\ Len(dialogs) = 1
    /\ dialogs[1].title = "Missing column"
    /\ \E k \in 1..Len(series) : ~Drawable(series[k]) /\ ~x_reselected[k]
    /\ \E k \in 1..Len(series) : Drawable(series[k])

====
